---- MODULE Spec2Model ----
(***************************************************************************)
(* Model of the torax source-model framework slice:                        *)
(*   - sources/impurity_radiation_heat_sink/                               *)
(*       impurity_radiation_constant_fraction.py                           *)
(*       (radially_constant_fraction_of_Pin and its config class)          *)
(*   - sources/pydantic_model.py                                           *)
(*       (discriminator, SourceModelConfig union, Sources._conform_data)   *)
(* Floating point values are modelled as exact rationals [n, d], d > 0,    *)
(* kept in lowest terms.  Source names that the code inspects character by *)
(* character ('sink' in source_name) are tuples of characters.             *)
(***************************************************************************)
EXTENDS Integers, Sequences, FiniteSets, TLC

VARIABLES
  \* --- one call of radially_constant_fraction_of_Pin -------------------
  dynamic_runtime_params_slice, \* .sources: source name -> dynamic params
  geo,                          \* Geometry: rho, vpr, volume_face, drho_norm
  source_name,                  \* the source_name argument
  calculated_source_profiles,   \* SourceProfiles container or None
  sink_result,                  \* outcome of the call
  sink_pc,                      \* "ready" | "done"
  \* --- one time step of the source evaluation driver -------------------
  step_phase,                   \* "idle" | "standard" | "dependent" | "done"
  step_profiles,                \* the step's SourceProfiles container
  step_sink_read,               \* what each sink read when it was evaluated
  step_count,                   \* time steps completed
  \* --- Sources construction --------------------------------------------
  raw_data,                     \* the raw specification mapping
  cfg_pc,                       \* number of resolutions done: 0, 1, 2
  cfg_first,                    \* outcome of the first resolution
  cfg_second,                   \* outcome of the second resolution
  cfg_conformed                 \* what _conform_data returned, first time

sink_vars == <<dynamic_runtime_params_slice, geo, source_name,
               calculated_source_profiles, sink_result, sink_pc>>
step_vars == <<step_phase, step_profiles, step_sink_read, step_count>>
cfg_vars == <<raw_data, cfg_pc, cfg_first, cfg_second, cfg_conformed>>
vars == <<sink_vars, step_vars, cfg_vars>>

(***************************************************************************)
(* Bounds                                                                  *)
(***************************************************************************)
NCells == 4          \* grid cells
MaxElEntries == 3    \* entries of the temp_el mapping
MaxIonEntries == 1   \* entries of the temp_ion mapping
MaxSteps == 2        \* time steps of the driver
MaxSources == 2      \* entries of a raw sources specification

(***************************************************************************)
(* Exact rational arithmetic standing in for the float arithmetic          *)
(***************************************************************************)
Abs(x) == IF x < 0 THEN -x ELSE x

RECURSIVE GCD(_, _)
GCD(a, b) == IF b = 0 THEN a ELSE GCD(b, a % b)

Rat(n, d) ==
  LET g == GCD(Abs(n), Abs(d))
      s == IF d < 0 THEN -1 ELSE 1
  IN [n |-> (s * n) \div g, d |-> (s * d) \div g]

RatInt(i) == [n |-> i, d |-> 1]
RatNeg(a) == [n |-> -a.n, d |-> a.d]
RatAdd(a, b) == Rat(a.n * b.d + b.n * a.d, a.d * b.d)
RatMul(a, b) == Rat(a.n * b.n, a.d * b.d)
RatDiv(a, b) == Rat(a.n * b.d, a.d * b.n)

RECURSIVE SumRat(_)
SumRat(s) == IF s = <<>> THEN RatInt(0) ELSE RatAdd(Head(s), SumRat(Tail(s)))

(***************************************************************************)
(* Source names                                                            *)
(***************************************************************************)
name_A == <<"A">>
name_B == <<"B">>
name_sinkX == <<"s", "i", "n", "k", "X">>
name_impurity_radiation_heat_sink ==
  <<"i", "m", "p", "u", "r", "i", "t", "y", "_", "r", "a", "d", "i", "a",
    "t", "i", "o", "n", "_", "h", "e", "a", "t", "_", "s", "i", "n", "k">>
name_bremsstrahlung_heat_sink ==
  <<"b", "r", "e", "m", "s", "s", "t", "r", "a", "h", "l", "u", "n", "g",
    "_", "h", "e", "a", "t", "_", "s", "i", "n", "k">>
name_ohmic_heat_source ==
  <<"o", "h", "m", "i", "c", "_", "h", "e", "a", "t", "_", "s", "o", "u",
    "r", "c", "e">>
name_generic_ion_el_heat_source ==
  <<"g", "e", "n", "e", "r", "i", "c", "_", "i", "o", "n", "_", "e", "l",
    "_", "h", "e", "a", "t", "_", "s", "o", "u", "r", "c", "e">>

\* Python's  sub in s  on strings
StrContains(sub, s) ==
  \E i \in 1..(Len(s) - Len(sub) + 1) : SubSeq(s, i, i + Len(sub) - 1) = sub

str_sink == <<"s", "i", "n", "k">>

MODEL_FUNCTION_NAME == "radially_constant_fraction_of_Pin"

(***************************************************************************)
(* Geometry and math_utils.cell_integration (interfaces of the sink model) *)
(***************************************************************************)
Cells == 1..NCells

\* uniform grid spacing in rho_norm
DrhoNorm == Rat(1, NCells)

\* cumulative volume indexed by face: volume_face[1] = 0 on axis,
\* volume_face[i + 1] = volume_face[i] + vpr[i] * drho_norm
RECURSIVE CumulativeVolume(_, _)
CumulativeVolume(vpr, k) ==
  IF k = 0 THEN <<RatInt(0)>>
  ELSE LET prev == CumulativeVolume(vpr, k - 1)
       IN Append(prev, RatAdd(prev[k], RatMul(RatInt(vpr[k]), DrhoNorm)))

Geometry(vpr) ==
  [rho |-> [i \in Cells |-> Rat(2 * i - 1, 2 * NCells)],
   vpr |-> vpr,
   volume_face |-> CumulativeVolume(vpr, NCells),
   drho_norm |-> DrhoNorm]

\* math_utils.cell_integration(x, geo) = sum(x * geo.drho_norm)
cell_integration(x, g) ==
  SumRat([i \in 1..Len(x) |-> RatMul(x[i], g.drho_norm)])

(***************************************************************************)
(* SourceProfiles container                                                *)
(***************************************************************************)
EmptyMap == <<>>

NoneProfiles == [is_none |-> TRUE, temp_el |-> EmptyMap, temp_ion |-> EmptyMap]

SourceProfiles(el, ion) == [is_none |-> FALSE, temp_el |-> el, temp_ion |-> ion]

zeros_like(a) == [i \in DOMAIN a |-> 0]
ones_like(a) == [i \in DOMAIN a |-> RatInt(1)]

\* the  for source_name in mapping: if 'sink' not in source_name: acc += ...
\* loop of the sink model, over the entries not yet visited
RECURSIVE SumNonSink(_, _, _)
SumNonSink(mapping, todo, acc) ==
  IF todo = {} THEN acc
  ELSE LET nm == CHOOSE x \in todo : TRUE
           nxt == IF ~StrContains(str_sink, nm)
                  THEN [i \in DOMAIN acc |-> acc[i] + mapping[nm][i]]
                  ELSE acc
       IN SumNonSink(mapping, todo \ {nm}, nxt)

\* the same loop with the sink filter forgotten
RECURSIVE SumEveryEntry(_, _, _)
SumEveryEntry(mapping, todo, acc) ==
  IF todo = {} THEN acc
  ELSE LET nm == CHOOSE x \in todo : TRUE
       IN SumEveryEntry(mapping, todo \ {nm},
                        [i \in DOMAIN acc |-> acc[i] + mapping[nm][i]])

(***************************************************************************)
(* radially_constant_fraction_of_Pin                                       *)
(***************************************************************************)
NoValue == <<>>

Raise(exc, names) ==
  [kind |-> "raise", exc |-> exc, msg_names |-> names, value |-> NoValue,
   Qtot_in |-> NoValue, Ptot_in |-> NoValue, Vtot |-> NoValue]

Return(value, Q, P, V) ==
  [kind |-> "return", exc |-> "", msg_names |-> "", value |-> value,
   Qtot_in |-> Q, Ptot_in |-> P, Vtot |-> V]

NotCalled ==
  [kind |-> "none", exc |-> "", msg_names |-> "", value |-> NoValue,
   Qtot_in |-> NoValue, Ptot_in |-> NoValue, Vtot |-> NoValue]

\* a missing container treated like an empty one
CheckArguments_no_none_check(dyn_slice, src_name, csp) ==
  IF src_name \notin DOMAIN dyn_slice.sources THEN Raise("KeyError", "")
  ELSE IF dyn_slice.sources[src_name].type # "DynamicRuntimeParams"
       THEN Raise("AssertionError", "")
       ELSE NotCalled

\* a container without heating input treated like a missing one
CheckArguments_rejects_unpopulated(dyn_slice, src_name, csp) ==
  IF src_name \notin DOMAIN dyn_slice.sources THEN Raise("KeyError", "")
  ELSE IF dyn_slice.sources[src_name].type # "DynamicRuntimeParams"
       THEN Raise("AssertionError", "")
       ELSE IF \/ csp.is_none
               \/ \A nm \in DOMAIN csp.temp_el \cup DOMAIN csp.temp_ion :
                     StrContains(str_sink, nm)
            THEN Raise("ValueError", MODEL_FUNCTION_NAME)
            ELSE NotCalled

\* lines 60-70: the parameter lookup, the isinstance assertion and the
\* None check; NotCalled stands for "no exception, carry on"
CheckArguments(dyn_slice, src_name, csp) ==
  IF src_name \notin DOMAIN dyn_slice.sources THEN Raise("KeyError", "")
  ELSE IF dyn_slice.sources[src_name].type # "DynamicRuntimeParams"
       THEN Raise("AssertionError", "")
       ELSE IF csp.is_none
            THEN Raise("ValueError", MODEL_FUNCTION_NAME)
            ELSE NotCalled

\* the sink filter applied to the electron loop only
Qtot_in_ion_unfiltered(csp, g) ==
  LET el == SumNonSink(csp.temp_el, DOMAIN csp.temp_el, zeros_like(g.rho))
  IN SumEveryEntry(csp.temp_ion, DOMAIN csp.temp_ion, el)

\* lines 78-86: Qtot_in = sum of the non-sink temp_el and temp_ion entries
Qtot_in(csp, g) ==
  LET el == SumNonSink(csp.temp_el, DOMAIN csp.temp_el, zeros_like(g.rho))
  IN SumNonSink(csp.temp_ion, DOMAIN csp.temp_ion, el)

\* line 87: Ptot_in = math_utils.cell_integration(Qtot_in * geo.vpr, geo)
Ptot_in(Q, g) ==
  cell_integration([i \in DOMAIN Q |-> RatInt(Q[i] * g.vpr[i])], g)

\* the volume taken one face short of the boundary
Vtot_inner_face(g) == g.volume_face[Len(g.volume_face) - 1]

\* line 88: Vtot = geo.volume_face[-1]
Vtot(g) == g.volume_face[Len(g.volume_face)]

\* the fraction applied to the local heating density instead of the total
HeatSinkProfile_local(fraction, Q, P, V, g) ==
  [i \in DOMAIN g.rho |-> RatMul(RatNeg(fraction), RatInt(Q[i]))]

\* lines 91-96: -fraction * Ptot_in / Vtot * jnp.ones_like(geo.rho)
HeatSinkProfile(fraction, Q, P, V, g) ==
  LET density == RatDiv(RatMul(RatNeg(fraction), P), V)
      ones == ones_like(g.rho)
  IN [i \in DOMAIN g.rho |-> RatMul(density, ones[i])]

radially_constant_fraction_of_Pin(dyn_slice, g, src_name, csp) ==
  LET chk == CheckArguments(dyn_slice, src_name, csp)
  IN IF chk.kind = "raise" THEN chk
     ELSE LET params == dyn_slice.sources[src_name]
              Q == Qtot_in(csp, g)
              P == Ptot_in(Q, g)
              V == Vtot(g)
          IN Return(<<HeatSinkProfile(
                        params.fraction_of_total_power_density, Q, P, V, g)>>,
                    Q, P, V)

(***************************************************************************)
(* Specification SinkSpec: one call of the sink model on drawn inputs      *)
(***************************************************************************)
SinkNames == {name_A, name_B, name_sinkX, name_bremsstrahlung_heat_sink}

Profiles ==
  {[i \in Cells |-> 2], [i \in Cells |-> 3], [i \in Cells |-> -i]}

Fractions == {Rat(1, 5), Rat(3, 2), Rat(-1, 2)}

VprChoices == {[i \in Cells |-> 1], [i \in Cells |-> i]}

Maps(k) ==
  UNION {[S -> Profiles] : S \in {T \in SUBSET SinkNames : Cardinality(T) <= k}}

DynamicRuntimeParams(fraction) ==
  [type |-> "DynamicRuntimeParams", fraction_of_total_power_density |-> fraction]

DynamicSlices ==
  {[sources |-> (name_impurity_radiation_heat_sink :> DynamicRuntimeParams(f))]
     : f \in Fractions}
  \cup {[sources |-> EmptyMap]}
  \cup {[sources |-> (name_impurity_radiation_heat_sink :>
                        [type |-> "OtherDynamicRuntimeParams",
                         fraction_of_total_power_density |-> Rat(1, 5)])]}

SinkIdle ==
  /\ dynamic_runtime_params_slice = [sources |-> EmptyMap]
  /\ geo = Geometry([i \in Cells |-> 1])
  /\ source_name = name_impurity_radiation_heat_sink
  /\ calculated_source_profiles = NoneProfiles
  /\ sink_result = NotCalled
  /\ sink_pc = "ready"

StepIdle ==
  /\ step_phase = "idle"
  /\ step_profiles = SourceProfiles(EmptyMap, EmptyMap)
  /\ step_sink_read = EmptyMap
  /\ step_count = 0

CfgIdle ==
  /\ raw_data = EmptyMap
  /\ cfg_pc = 0
  /\ cfg_first = NoValue
  /\ cfg_second = NoValue
  /\ cfg_conformed = NoValue

SinkInit ==
  /\ dynamic_runtime_params_slice \in DynamicSlices
  /\ geo \in {Geometry(v) : v \in VprChoices}
  /\ source_name = name_impurity_radiation_heat_sink
  /\ calculated_source_profiles \in
       {NoneProfiles} \cup
       {SourceProfiles(el, ion) :
          el \in Maps(MaxElEntries), ion \in Maps(MaxIonEntries)}
  /\ sink_result = NotCalled
  /\ sink_pc = "ready"
  /\ StepIdle
  /\ CfgIdle

CallSink ==
  /\ sink_pc = "ready"
  /\ sink_result' = radially_constant_fraction_of_Pin(
                      dynamic_runtime_params_slice, geo, source_name,
                      calculated_source_profiles)
  /\ sink_pc' = "done"
  /\ UNCHANGED <<dynamic_runtime_params_slice, geo, source_name,
                 calculated_source_profiles, step_vars, cfg_vars>>

SinkNext == CallSink

SinkSpec == SinkInit /\ [][SinkNext]_vars

(***************************************************************************)
(* Specification StepSpec: the two-phase evaluation of one time step       *)
(* (the driver that owns the step's SourceProfiles container):             *)
(* first every source that does not read the container, then the sources   *)
(* that aggregate over it.                                                 *)
(***************************************************************************)
\* sources that do not read the container, with the equations they affect
StandardSources ==
  {name_ohmic_heat_source, name_generic_ion_el_heat_source,
   name_bremsstrahlung_heat_sink}

AffectsIon(nm) == nm = name_generic_ion_el_heat_source

\* sources whose model function aggregates over the container
DependentSources == {name_impurity_radiation_heat_sink}

\* what a standard source may compute in a step
StandardValues(nm) ==
  IF nm = name_bremsstrahlung_heat_sink
  THEN {[i \in Cells |-> -4]}
  ELSE {[i \in Cells |-> 2], [i \in Cells |-> 3], [i \in Cells |-> i]}

MapPut(mapping, key, val) ==
  [k \in DOMAIN mapping \cup {key} |-> IF k = key THEN val ELSE mapping[k]]

StandardPhaseComplete ==
  /\ StandardSources \subseteq DOMAIN step_profiles.temp_el
  /\ \A nm \in StandardSources :
       AffectsIon(nm) => nm \in DOMAIN step_profiles.temp_ion

\* dependent sources may run while standard sources are still being computed
DependentEnabled_any_phase == step_phase \in {"standard", "dependent"}

\* dependent sources run in the second phase only
DependentEnabled == step_phase = "dependent"

StepInit ==
  /\ dynamic_runtime_params_slice \in
       {[sources |-> (name_impurity_radiation_heat_sink
                        :> DynamicRuntimeParams(f))] : f \in {Rat(1, 5), Rat(1, 2)}}
  /\ geo \in {Geometry(v) : v \in VprChoices}
  /\ source_name = name_impurity_radiation_heat_sink
  /\ calculated_source_profiles = NoneProfiles
  /\ sink_result = NotCalled
  /\ sink_pc = "ready"
  /\ StepIdle
  /\ CfgIdle

\* a new step starts from an empty container
StartStep ==
  /\ step_phase \in {"idle", "done"}
  /\ step_count < MaxSteps
  /\ step_phase' = "standard"
  /\ step_profiles' = SourceProfiles(EmptyMap, EmptyMap)
  /\ step_sink_read' = EmptyMap
  /\ UNCHANGED <<step_count, sink_vars, cfg_vars>>

\* phase 1: compute one standard source and insert its contribution
ComputeStandard ==
  /\ step_phase = "standard"
  /\ \E nm \in StandardSources \ DOMAIN step_profiles.temp_el :
       \E val \in StandardValues(nm) :
         step_profiles' =
           [step_profiles EXCEPT
              !.temp_el = MapPut(@, nm, val),
              !.temp_ion = IF AffectsIon(nm) THEN MapPut(@, nm, val) ELSE @]
  /\ UNCHANGED <<step_phase, step_sink_read, step_count, sink_vars, cfg_vars>>

\* phase 1 ends once every standard source is in the container
FinishStandardPhase ==
  /\ step_phase = "standard"
  /\ StandardPhaseComplete
  /\ step_phase' = "dependent"
  /\ UNCHANGED <<step_profiles, step_sink_read, step_count, sink_vars,
                 cfg_vars>>

\* phase 2: evaluate one dependent source on the container and insert it
EvalDependent ==
  /\ DependentEnabled
  /\ \E nm \in DependentSources \ DOMAIN step_sink_read :
       LET res == radially_constant_fraction_of_Pin(
                    dynamic_runtime_params_slice, geo, nm, step_profiles)
       IN /\ res.kind = "return"
          /\ step_sink_read' =
               MapPut(step_sink_read, nm,
                      [seen_el |-> DOMAIN step_profiles.temp_el,
                       seen_ion |-> DOMAIN step_profiles.temp_ion,
                       Qtot_in |-> res.Qtot_in])
          /\ step_profiles' =
               [step_profiles EXCEPT !.temp_el = MapPut(@, nm, res.value[1])]
  /\ UNCHANGED <<step_phase, step_count, sink_vars, cfg_vars>>

EndStep ==
  /\ step_phase = "dependent"
  /\ DependentSources \subseteq DOMAIN step_sink_read
  /\ step_phase' = "done"
  /\ step_count' = step_count + 1
  /\ UNCHANGED <<step_profiles, step_sink_read, sink_vars, cfg_vars>>

StepNext ==
  \/ StartStep
  \/ ComputeStandard
  \/ FinishStandardPhase
  \/ EvalDependent
  \/ EndStep

StepSpec == StepInit /\ [][StepNext]_vars

(***************************************************************************)
(* Sources construction: pydantic_model.py                                 *)
(* A raw specification is a mapping from field name to value; values are   *)
(* opaque strings.  Python functions that receive a dict return, next to   *)
(* their value, the dict as they leave it.                                 *)
(***************************************************************************)
TAG_MAVRIN_FIT == "impurity_radiation_mavrin_fit"
TAG_CONSTANT_FRACTION == "radially_constant_fraction_of_Pin"
IMPURITY_SOURCE_NAME == "impurity_radiation_heat_sink"
GENERIC_CURRENT_SOURCE_NAME == "generic_current_source"

\* the default tag taken from the sibling variant
get_impurity_heat_sink_discriminator_value_cf_default(model) ==
  [ret |-> IF "model_func" \in DOMAIN model
           THEN model["model_func"] ELSE TAG_CONSTANT_FRACTION,
   model |-> model]

\* model.pop in place of model.get
get_impurity_heat_sink_discriminator_value_pop(model) ==
  [ret |-> IF "model_func" \in DOMAIN model
           THEN model["model_func"] ELSE TAG_MAVRIN_FIT,
   model |-> [k \in DOMAIN model \ {"model_func"} |-> model[k]]]

\* model.get('model_func', 'impurity_radiation_mavrin_fit')
get_impurity_heat_sink_discriminator_value(model) ==
  [ret |-> IF "model_func" \in DOMAIN model
           THEN model["model_func"] ELSE TAG_MAVRIN_FIT,
   model |-> model]

\* tags of the ImpurityRadiationHeatSinkConfig union (pydantic.Tag)
ImpurityTags == {TAG_MAVRIN_FIT, TAG_CONSTANT_FRACTION}

\* source_name literals of the SourceModelConfig union members used here
RegisteredSourceNames == {IMPURITY_SOURCE_NAME, GENERIC_CURRENT_SOURCE_NAME}

Invalid(errs, entry) ==
  [ok |-> FALSE, config |-> NoValue, errors |-> errs, entry |-> entry]

Valid(config, entry) ==
  [ok |-> TRUE, config |-> config, errors |-> {}, entry |-> entry]

\* fields of a model class: a field with a Literal type accepts only that
\* value, a missing field takes its default, an unknown field is an error
ValidateFields(class, literals, defaults, entry) ==
  LET known == DOMAIN literals \cup DOMAIN defaults
      errs == {f \in DOMAIN entry :
                 \/ f \notin known
                 \/ f \in DOMAIN literals /\ entry[f] # literals[f]}
  IN IF errs # {} THEN Invalid(errs, entry)
     ELSE Valid([f \in known \cup {"class"} |->
                   IF f = "class" THEN class
                   ELSE IF f \in DOMAIN entry THEN entry[f]
                   ELSE IF f \in DOMAIN literals THEN literals[f]
                   ELSE defaults[f]],
                entry)

\* class ImpurityRadiationHeatSinkConstantFractionConfig
ImpurityRadiationHeatSinkConstantFractionConfig(entry) ==
  ValidateFields("ImpurityRadiationHeatSinkConstantFractionConfig",
                 [source_name |-> IMPURITY_SOURCE_NAME,
                  model_func |-> TAG_CONSTANT_FRACTION],
                 [fraction_of_total_power_density |-> "0.1",
                  mode |-> "MODEL_BASED"],
                 entry)

\* impurity_radiation_mavrin_fit.ImpurityRadiationHeatSinkMavrinFitConfig
ImpurityRadiationHeatSinkMavrinFitConfig(entry) ==
  ValidateFields("ImpurityRadiationHeatSinkMavrinFitConfig",
                 [source_name |-> IMPURITY_SOURCE_NAME,
                  model_func |-> TAG_MAVRIN_FIT],
                 [mode |-> "MODEL_BASED"],
                 entry)

\* generic_current_source.GenericCurrentSourceConfig
GenericCurrentSourceConfig(entry) ==
  ValidateFields("GenericCurrentSourceConfig",
                 [source_name |-> GENERIC_CURRENT_SOURCE_NAME,
                  model_func |-> "calc_generic_current"],
                 [mode |-> "MODEL_BASED"],
                 entry)

\* ImpurityRadiationHeatSinkConfig: the callable discriminator picks the
\* tagged variant, which then validates the entry
ImpurityRadiationHeatSinkConfig(entry) ==
  LET d == get_impurity_heat_sink_discriminator_value(entry)
  IN IF d.ret \notin ImpurityTags THEN Invalid({"model_func"}, d.model)
     ELSE IF d.ret = TAG_MAVRIN_FIT
          THEN ImpurityRadiationHeatSinkMavrinFitConfig(d.model)
          ELSE ImpurityRadiationHeatSinkConstantFractionConfig(d.model)

\* SourceModelConfig under Field(discriminator='source_name')
SourceModelConfig(entry) ==
  IF "source_name" \notin DOMAIN entry THEN Invalid({"source_name"}, entry)
  ELSE IF entry["source_name"] \notin RegisteredSourceNames
       THEN Invalid({"source_name"}, entry)
       ELSE IF entry["source_name"] = IMPURITY_SOURCE_NAME
            THEN ImpurityRadiationHeatSinkConfig(entry)
            ELSE GenericCurrentSourceConfig(entry)

\* setdefault in place of update: a supplied source_name is kept
_conform_data_setdefault(data) ==
  IF "source_model_config" \in DOMAIN data
  THEN [ret |-> data, shares_input |-> TRUE, data |-> data]
  ELSE [ret |-> ("source_model_config" :>
                   [key \in DOMAIN data |->
                      IF "source_name" \in DOMAIN data[key] THEN data[key]
                      ELSE MapPut(data[key], "source_name", key)]),
        shares_input |-> FALSE,
        data |-> data]

\* Sources._conform_data: ret is the returned dict, shares_input tells
\* whether ret is the caller's object (no copy made), data is the caller's
\* dict afterwards
_conform_data(data) ==
  IF "source_model_config" \in DOMAIN data
  THEN [ret |-> data, shares_input |-> TRUE, data |-> data]
  ELSE [ret |-> ("source_model_config" :>
                   [key \in DOMAIN data |->
                      MapPut(data[key], "source_name", key)]),
        shares_input |-> FALSE,
        data |-> data]

\* entries that fail validation are dropped, the others are kept
ValidateSources_partial(conformed) ==
  LET entries == conformed["source_model_config"]
      res == [key \in DOMAIN entries |-> SourceModelConfig(entries[key])]
      good == {key \in DOMAIN entries : res[key].ok}
  IN [ok |-> TRUE,
      source_model_config |-> [key \in good |-> res[key].config],
      errors |-> {},
      data |-> ("source_model_config" :>
                  [key \in DOMAIN entries |-> res[key].entry])]

\* class Sources: validation of source_model_config, entry by entry; one
\* failing entry fails the construction
ValidateSources(conformed) ==
  LET entries == conformed["source_model_config"]
      res == [key \in DOMAIN entries |-> SourceModelConfig(entries[key])]
      errs == UNION {{<<key, f>> : f \in res[key].errors} : key \in DOMAIN entries}
  IN [ok |-> errs = {},
      source_model_config |->
        IF errs = {} THEN [key \in DOMAIN entries |-> res[key].config]
        ELSE NoValue,
      errors |-> errs,
      data |-> ("source_model_config" :>
                  [key \in DOMAIN entries |-> res[key].entry])]

\* Sources.from_dict(data) / Sources(**data): the before-validator, then
\* the field validation; data is the caller's mapping afterwards
ResolveSources(data) ==
  LET c == _conform_data(data)
      v == ValidateSources(c.ret)
  IN [ok |-> v.ok,
      source_model_config |-> v.source_model_config,
      errors |-> v.errors,
      conformed |-> c.ret,
      data |-> IF c.shares_input THEN v.data ELSE c.data]

(***************************************************************************)
(* Specification ConfigSpec: the same raw mapping resolved twice           *)
(***************************************************************************)
SourceKeys == {IMPURITY_SOURCE_NAME, GENERIC_CURRENT_SOURCE_NAME, "not_a_source"}

FieldChoices ==
  [model_func |-> {TAG_MAVRIN_FIT, TAG_CONSTANT_FRACTION, "not_a_model_func"},
   source_name |-> {IMPURITY_SOURCE_NAME, "not_a_source"},
   fraction_of_total_power_density |-> {"0.2"}]

RawEntries ==
  UNION {{e \in [F -> UNION {FieldChoices[f] : f \in F}] :
            \A f \in F : e[f] \in FieldChoices[f]}
         : F \in SUBSET DOMAIN FieldChoices}

RawMappings ==
  UNION {[K -> RawEntries] :
           K \in {T \in SUBSET SourceKeys : Cardinality(T) <= MaxSources}}

ConfigInit ==
  /\ raw_data \in
       RawMappings \cup {("source_model_config" :> m) : m \in RawMappings}
  /\ cfg_pc = 0
  /\ cfg_first = NoValue
  /\ cfg_second = NoValue
  /\ cfg_conformed = NoValue
  /\ SinkIdle
  /\ StepIdle

ResolveFirst ==
  /\ cfg_pc = 0
  /\ LET r == ResolveSources(raw_data)
     IN /\ cfg_first' = [ok |-> r.ok,
                         source_model_config |-> r.source_model_config,
                         errors |-> r.errors]
        /\ cfg_conformed' = r.conformed
        /\ raw_data' = r.data
  /\ cfg_pc' = 1
  /\ UNCHANGED <<cfg_second, sink_vars, step_vars>>

ResolveSecond ==
  /\ cfg_pc = 1
  /\ LET r == ResolveSources(raw_data)
     IN /\ cfg_second' = [ok |-> r.ok,
                          source_model_config |-> r.source_model_config,
                          errors |-> r.errors]
        /\ raw_data' = r.data
  /\ cfg_pc' = 2
  /\ UNCHANGED <<cfg_first, cfg_conformed, sink_vars, step_vars>>

ConfigNext == ResolveFirst \/ ResolveSecond

ConfigSpec == ConfigInit /\ [][ConfigNext]_vars

(***************************************************************************)
(* Properties of the sink model (checked under SinkSpec)                   *)
(***************************************************************************)
ValidDynamicParams ==
  /\ source_name \in DOMAIN dynamic_runtime_params_slice.sources
  /\ dynamic_runtime_params_slice.sources[source_name].type
       = "DynamicRuntimeParams"

SinkFraction ==
  dynamic_runtime_params_slice.sources[source_name]
    .fraction_of_total_power_density

\* the names of SinkNames that carry the sink tag
SinkTagged == {name_sinkX, name_bremsstrahlung_heat_sink}

EntryAt(mapping, nm, i) ==
  IF nm \in DOMAIN mapping /\ nm \notin SinkTagged THEN mapping[nm][i] ELSE 0

\* the non-sink sum of cell i, written out over the four names
ExpectedQ(i) ==
  LET el == calculated_source_profiles.temp_el
      ion == calculated_source_profiles.temp_ion
  IN EntryAt(el, name_A, i) + EntryAt(el, name_B, i)
     + EntryAt(el, name_sinkX, i) + EntryAt(el, name_bremsstrahlung_heat_sink, i)
     + EntryAt(ion, name_A, i) + EntryAt(ion, name_B, i)
     + EntryAt(ion, name_sinkX, i)
     + EntryAt(ion, name_bremsstrahlung_heat_sink, i)

NoNonSinkEntry ==
  \A nm \in DOMAIN calculated_source_profiles.temp_el
            \cup DOMAIN calculated_source_profiles.temp_ion : nm \in SinkTagged

\* C1: called with calculated_source_profiles = None (and valid dynamic
\* params), the model raises the ValueError naming
\* radially_constant_fraction_of_Pin and returns no profile.
C1_MissingContainerRaises ==
  (sink_pc = "done" /\ ValidDynamicParams /\ calculated_source_profiles.is_none)
    => /\ sink_result.kind = "raise"
       /\ sink_result.exc = "ValueError"
       /\ sink_result.msg_names = "radially_constant_fraction_of_Pin"
       /\ sink_result.value = NoValue

C1_Witness ==
  /\ sink_pc = "done"
  /\ ValidDynamicParams
  /\ calculated_source_profiles.is_none
  /\ sink_result.kind = "raise"

\* C2: Q_in is, cell by cell, the sum of the temp_el and temp_ion entries of
\* the sources not tagged as sinks, each counted once; sink entries add
\* nothing, whatever their value or sign.
C2_QinIsNonSinkSum ==
  (sink_pc = "done" /\ sink_result.kind = "return")
    => /\ DOMAIN sink_result.Qtot_in = Cells
       /\ \A i \in Cells : sink_result.Qtot_in[i] = ExpectedQ(i)

\* {A: a, B: b, sinkX: s} with s negative: the sum is a + b
C2_Witness ==
  /\ sink_pc = "done"
  /\ sink_result.kind = "return"
  /\ DOMAIN calculated_source_profiles.temp_el = {name_A, name_B, name_sinkX}
  /\ DOMAIN calculated_source_profiles.temp_ion = {}
  /\ \A i \in Cells :
       /\ calculated_source_profiles.temp_el[name_sinkX][i] < 0
       /\ sink_result.Qtot_in[i]
            = calculated_source_profiles.temp_el[name_A][i]
              + calculated_source_profiles.temp_el[name_B][i]

\* sum over cells of Qtot_in * vpr, so that P_in = PinTimesCells / NCells
RECURSIVE WeightedSum(_, _, _)
WeightedSum(q, w, k) ==
  IF k = 0 THEN 0 ELSE q[k] * w[k] + WeightedSum(q, w, k - 1)

\* x = -fraction * (pin_cells / NCells) / vtot, by cross multiplication
IsSinkDensity(x, fraction, pin_cells, vtot) ==
  x.n * fraction.d * NCells * vtot.n
    = -1 * fraction.n * pin_cells * vtot.d * x.d

\* C3: for every non-None container, grid and fraction (also outside
\* [0, 1)) the model returns a one-element tuple whose array has one value
\* per cell, every cell holding -fraction * P_in / V_tot.
C3_UniformSinkDensity ==
  (sink_pc = "done" /\ ValidDynamicParams /\ ~calculated_source_profiles.is_none)
    => /\ sink_result.kind = "return"
       /\ Len(sink_result.value) = 1
       /\ DOMAIN sink_result.value[1] = Cells
       /\ \A i \in Cells :
            /\ sink_result.value[1][i] = sink_result.value[1][1]
            /\ IsSinkDensity(sink_result.value[1][i], SinkFraction,
                             WeightedSum(sink_result.Qtot_in, geo.vpr, NCells),
                             geo.volume_face[NCells + 1])

\* vpr = 1 everywhere, electron heat sources 2.0 and 3.0, fraction 0.2:
\* Q_in = 5, P_in = 5, V_tot = 1, every cell -1
C3_Witness ==
  /\ sink_pc = "done"
  /\ ValidDynamicParams
  /\ SinkFraction = Rat(1, 5)
  /\ geo.vpr = [i \in Cells |-> 1]
  /\ ~calculated_source_profiles.is_none
  /\ name_A \in DOMAIN calculated_source_profiles.temp_el
  /\ name_B \in DOMAIN calculated_source_profiles.temp_el
  /\ calculated_source_profiles.temp_el[name_A] = [i \in Cells |-> 2]
  /\ calculated_source_profiles.temp_el[name_B] = [i \in Cells |-> 3]
  /\ sink_result.kind = "return"
  /\ \A i \in Cells : sink_result.Qtot_in[i] = 5
  /\ \A i \in Cells : sink_result.value[1][i] = RatInt(-1)

\* a fraction outside [0, 1) is used as it is
C3_WitnessOutOfRange ==
  /\ sink_pc = "done"
  /\ ValidDynamicParams
  /\ SinkFraction = Rat(3, 2)
  /\ sink_result.kind = "return"
  /\ sink_result.Ptot_in.n > 0
  /\ sink_result.value[1][1].n < 0

InOpenUnitInterval(f) == 0 < f.n /\ f.n < f.d

C7_UnpopulatedContainerRaises ==
  (/\ sink_pc = "done"
   /\ ValidDynamicParams
   /\ (calculated_source_profiles.is_none \/ NoNonSinkEntry))
    => sink_result.kind = "raise"

\* C7 amended: the model raises exactly when the container is absent; a
\* present container with no non-sink entry yields the all-zero profile.
C7_RaisesOnlyWhenAbsent ==
  (sink_pc = "done" /\ ValidDynamicParams)
    => /\ (sink_result.kind = "raise") <=> calculated_source_profiles.is_none
       /\ (~calculated_source_profiles.is_none /\ NoNonSinkEntry)
            => /\ sink_result.kind = "return"
               /\ \A i \in Cells : sink_result.value[1][i] = RatInt(0)

C7_Witness ==
  /\ sink_pc = "done"
  /\ ValidDynamicParams
  /\ ~calculated_source_profiles.is_none
  /\ NoNonSinkEntry
  /\ name_sinkX \in DOMAIN calculated_source_profiles.temp_el
  /\ sink_result.kind = "return"
  /\ \A i \in Cells : sink_result.value[1][i] = RatInt(0)

(***************************************************************************)
(* Evaluation order (checked under StepSpec)                               *)
(***************************************************************************)
\* the non-sink sources contributing to the heat equations
NonSinkHeatSources == {name_ohmic_heat_source, name_generic_ion_el_heat_source}

\* C8: in every step each sink evaluation happens after every non-sink
\* source of the electron-heat and ion-heat equations has been computed and
\* inserted: what the sink read lacked none of them, and its aggregate is
\* the sum of the step's non-sink contributions.
C8_SinkEvaluatedAfterNonSinks ==
  \A nm \in DOMAIN step_sink_read :
    /\ NonSinkHeatSources \subseteq step_sink_read[nm].seen_el
    /\ name_generic_ion_el_heat_source \in step_sink_read[nm].seen_ion
    /\ NonSinkHeatSources \subseteq DOMAIN step_profiles.temp_el
    /\ \A i \in Cells :
         step_sink_read[nm].Qtot_in[i]
           = step_profiles.temp_el[name_ohmic_heat_source][i]
             + step_profiles.temp_el[name_generic_ion_el_heat_source][i]
             + step_profiles.temp_ion[name_generic_ion_el_heat_source][i]

C8_Witness ==
  /\ step_count = 1
  /\ step_phase = "dependent"
  /\ name_impurity_radiation_heat_sink \in DOMAIN step_sink_read
  /\ name_impurity_radiation_heat_sink \in DOMAIN step_profiles.temp_el
  /\ step_sink_read[name_impurity_radiation_heat_sink].Qtot_in
       = [i \in Cells |-> 2 + 2 * i]

(***************************************************************************)
(* Properties of Sources construction (checked under ConfigSpec)           *)
(***************************************************************************)
IsWrapped == "source_model_config" \in DOMAIN raw_data

\* the name -> specification mapping of the raw data
RawSources == IF IsWrapped THEN raw_data["source_model_config"] ELSE raw_data

HasName(k) == ~IsWrapped \/ "source_name" \in DOMAIN RawSources[k]

\* the source name of entry k: its key, or, for data given in constructor
\* form, the source_name it carries
NameOf(k) == IF IsWrapped THEN RawSources[k]["source_name"] ELSE k

ImpurityEntry(k) == HasName(k) /\ NameOf(k) = "impurity_radiation_heat_sink"

ExpectedTag(k) ==
  IF "model_func" \in DOMAIN RawSources[k]
  THEN RawSources[k]["model_func"]
  ELSE "impurity_radiation_mavrin_fit"

ExpectedClass(tag) ==
  IF tag = "radially_constant_fraction_of_Pin"
  THEN "ImpurityRadiationHeatSinkConstantFractionConfig"
  ELSE "ImpurityRadiationHeatSinkMavrinFitConfig"

\* C5: for an impurity-radiation entry the tag is its model_func verbatim,
\* or impurity_radiation_mavrin_fit when it has none; the tag picks the
\* variant that validates the entry: no model_func resolves to the Mavrin
\* fit variant, radially_constant_fraction_of_Pin to the constant-fraction
\* variant, any other tag is rejected on model_func.
C5_DiscriminatorSelectsVariant ==
  cfg_pc >= 1 =>
    \A k \in DOMAIN RawSources :
      ImpurityEntry(k) =>
        LET tag == ExpectedTag(k)
        IN IF tag \in {"impurity_radiation_mavrin_fit",
                       "radially_constant_fraction_of_Pin"}
           THEN /\ <<k, "model_func">> \notin cfg_first.errors
                /\ cfg_first.ok =>
                     /\ cfg_first.source_model_config[k]["class"]
                          = ExpectedClass(tag)
                     /\ cfg_first.source_model_config[k]["model_func"] = tag
           ELSE <<k, "model_func">> \in cfg_first.errors

C5_Witness ==
  /\ cfg_pc >= 1
  /\ cfg_first.ok
  /\ \E k1, k2 \in DOMAIN RawSources :
       /\ ImpurityEntry(k1)
       /\ ImpurityEntry(k2)
       /\ "model_func" \notin DOMAIN RawSources[k1]
       /\ cfg_first.source_model_config[k1]["class"]
            = "ImpurityRadiationHeatSinkMavrinFitConfig"
       /\ "model_func" \in DOMAIN RawSources[k2]
       /\ cfg_first.source_model_config[k2]["class"]
            = "ImpurityRadiationHeatSinkConstantFractionConfig"

RegisteredModelFuncs(name) ==
  IF name = "impurity_radiation_heat_sink"
  THEN {"impurity_radiation_mavrin_fit", "radially_constant_fraction_of_Pin"}
  ELSE {"calc_generic_current"}

UnknownSourceName(k) ==
  ~HasName(k)
  \/ NameOf(k) \notin {"impurity_radiation_heat_sink", "generic_current_source"}

UnknownModelFunc(k) ==
  /\ ~UnknownSourceName(k)
  /\ "model_func" \in DOMAIN RawSources[k]
  /\ RawSources[k]["model_func"] \notin RegisteredModelFuncs(NameOf(k))

WouldBeValidAlone(k) ==
  /\ ~UnknownSourceName(k)
  /\ ~UnknownModelFunc(k)
  /\ DOMAIN RawSources[k] \subseteq {"source_name", "model_func"}

\* C6: building Sources is all-or-nothing: an entry with an unregistered
\* source name or an unregistered model_func fails the construction, with
\* an error naming the entry and the field, and no Sources object results,
\* whatever the other entries are.
C6_AllOrNothing ==
  cfg_pc >= 1 =>
    \A k \in DOMAIN RawSources :
      /\ UnknownSourceName(k) =>
           /\ ~cfg_first.ok
           /\ cfg_first.source_model_config = NoValue
           /\ <<k, "source_name">> \in cfg_first.errors
      /\ UnknownModelFunc(k) =>
           /\ ~cfg_first.ok
           /\ cfg_first.source_model_config = NoValue
           /\ <<k, "model_func">> \in cfg_first.errors

C6_Witness ==
  /\ cfg_pc >= 1
  /\ ~cfg_first.ok
  /\ cfg_first.source_model_config = NoValue
  /\ \E k1, k2 \in DOMAIN RawSources :
       /\ WouldBeValidAlone(k1)
       /\ UnknownModelFunc(k2)
       /\ \A e \in cfg_first.errors : e[1] = k2

\* C9: resolving the same raw mapping object twice in succession gives
\* the same outcome, field for field.
C9_ResolutionIdempotent ==
  cfg_pc = 2 => cfg_second = cfg_first

C9_Witness ==
  /\ cfg_pc = 2
  /\ cfg_first.ok
  /\ cfg_second.ok
  /\ IsWrapped
  /\ \E k \in DOMAIN RawSources :
       /\ ImpurityEntry(k)
       /\ ExpectedTag(k) = "radially_constant_fraction_of_Pin"
       /\ cfg_second.source_model_config[k]["class"]
            = "ImpurityRadiationHeatSinkConstantFractionConfig"
       /\ cfg_second.source_model_config[k]["fraction_of_total_power_density"]
            = "0.2"

\* C10: without a top-level source_model_config key, _conform_data returns
\* {'source_model_config': M}, M having exactly the input's keys and M[k]
\* being the input entry with source_name set to k (a supplied source_name
\* is replaced), and validation sees the injected name; data that has the
\* key is returned as it is.
C10_ConformData ==
  cfg_pc >= 1 =>
    IF "source_model_config" \in DOMAIN raw_data
    THEN cfg_conformed = raw_data
    ELSE /\ DOMAIN cfg_conformed = {"source_model_config"}
         /\ DOMAIN cfg_conformed["source_model_config"] = DOMAIN raw_data
         /\ \A k \in DOMAIN raw_data :
              LET m == cfg_conformed["source_model_config"][k]
              IN /\ DOMAIN m = DOMAIN raw_data[k] \cup {"source_name"}
                 /\ m["source_name"] = k
                 /\ \A f \in DOMAIN raw_data[k] \ {"source_name"} :
                      m[f] = raw_data[k][f]
                 /\ cfg_first.ok =>
                      cfg_first.source_model_config[k]["source_name"] = k

C10_Witness ==
  /\ cfg_pc >= 1
  /\ ~IsWrapped
  /\ cfg_first.ok
  /\ \E k \in DOMAIN raw_data :
       /\ "source_name" \in DOMAIN raw_data[k]
       /\ raw_data[k]["source_name"] # k
       /\ cfg_conformed["source_model_config"][k]["source_name"] = k

====
